---- MODULE Spec2Model ----
(***************************************************************************)
(* A model of src/index.js (the second, clamping version, lines 238-568):  *)
(* a PannableCanvas whose worldContainer is translated by a pan gesture,   *)
(* and DraggableNodes that bind a world position to a marker and to an     *)
(* absolutely positioned DOM element.                                      *)
(*                                                                         *)
(* Every event handler the code registers is one action.  Coordinates are  *)
(* integers (pixels).  The host (browser, pixi.js) delivers events in any  *)
(* order; the model does not assume a single physical pointer.             *)
(***************************************************************************)
EXTENDS Integers, Sequences, FiniteSets

VARIABLES
  worldContainer,   \* [x, y]: position of the pannable container (the pan offset)
  isPanning,        \* PannableCanvas.isPanning
  isSpacebarDown,   \* PannableCanvas.isSpacebarDown
  lastPosition,     \* PannableCanvas.lastPosition
  cursor,           \* app.canvas.style.cursor
  nodes,            \* PannableCanvas.nodes: sequence of DraggableNode records
  windowListeners,  \* listeners on window, in order: <<type, node index or 0>>
  stageListeners,   \* event names app.stage has a listener for
  userSelect,       \* document.body.style.userSelect
  domContainer,     \* [left, top]: placement of the overlay container
  pointerOver       \* the host's hit test: the pointer is over the canvas

vars == <<worldContainer, isPanning, isSpacebarDown, lastPosition, cursor, nodes,
          windowListeners, stageListeners, userSelect, domContainer, pointerOver>>

----------------------------------------------------------------------------
(* Bounds and inputs of the model *)

\* The pan offset is kept within MaxPanSteps pan deltas of the origin.
MaxPanSteps == 1

\* pixi Point
Point(px, py) == [x |-> px, y |-> py]

\* Arguments of the first two createNode calls of the entry point, with the
\* footprint (clientWidth, clientHeight) the host lays each element out
\* with.  The second element is taller than the canvas.
NodeArgs ==
  << [x |-> 100, y |-> 75,  clientWidth |-> 100, clientHeight |-> 40],
     [x |-> 50,  y |-> 150, clientWidth |-> 100, clientHeight |-> 800] >>

\* clientX/clientY of the mouse events delivered to the element and to window
ClientPoints == { Point(120, 85), Point(620, 85) }

\* event.global of the pointer events delivered to the stage
GlobalPoints == { Point(50, 20), Point(550, 680) }

\* offsetLeft/offsetTop of the canvas element in the page
CanvasOffsets == { [left |-> 8, top |-> 10] }
ResizedOffsets == { [left |-> 8, top |-> 10], [left |-> 0, top |-> 0] }

KeyCodes == { "Space", "KeyA" }

----------------------------------------------------------------------------
(* The host's geometry *)

\* app.screen after app.init({width: 600, height: 700})
screen == [x |-> 0, y |-> 0, width |-> 600, height |-> 700]

Max(a, b) == IF a >= b THEN a ELSE b
Min(a, b) == IF a <= b THEN a ELSE b

\* Mutant of toLocal: the pan offset not taken off
toLocalUntranslated(p) == Point(p.x, p.y)

\* worldContainer.toLocal / toGlobal: a pure translation by the pan offset
toLocal(p) == Point(p.x - worldContainer.x, p.y - worldContainer.y)
toGlobal(p) == Point(p.x + worldContainer.x, p.y + worldContainer.y)

\* domContainer.getBoundingClientRect()
getBoundingClientRect == domContainer

\* window.addEventListener: a listener already registered is not added again
addEventListener(listeners, l) ==
  IF \E i \in 1..Len(listeners) : listeners[i] = l
    THEN listeners
    ELSE Append(listeners, l)

\* window.removeEventListener
removeEventListener(listeners, l) == SelectSeq(listeners, LAMBDA x : x # l)

\* The listener l is registered on window
listening(l) == \E i \in 1..Len(windowListeners) : windowListeners[i] = l

----------------------------------------------------------------------------
(* PannableCanvas *)

\* Mutant of _updateCursor: the modifier looked at before the Panning flag
updateCursorModifierFirst(panning, spacebar) ==
  IF spacebar THEN "grab"
  ELSE IF panning THEN "grabbing"
  ELSE "default"

\* _updateCursor(), with the flags it reads
updateCursor(panning, spacebar) ==
  IF panning THEN "grabbing"
  ELSE IF spacebar THEN "grab"
  ELSE "default"

\* State after `new PannableCanvas(document.body)`
Init ==
  /\ worldContainer = Point(0, 0)
  /\ isPanning = FALSE
  /\ isSpacebarDown = FALSE
  /\ lastPosition = Point(0, 0)
  /\ cursor = ""
  /\ nodes = << >>
  /\ windowListeners = << >>
  /\ stageListeners = {}
  /\ userSelect = ""
  /\ domContainer = [left |-> 0, top |-> 0]   \* a detached div
  /\ pointerOver = FALSE

initialized == stageListeners # {}

\* _setupDOMContainer()
setupDOMContainer(canvasEl) == [left |-> canvasEl.left, top |-> canvasEl.top]

\* _setupPanning(): the listeners registered on the stage and on window
setupPanning ==
  [ stage  |-> {"pointerdown", "pointermove", "pointerup", "pointerupoutside"},
    window |-> addEventListener(addEventListener(windowListeners, <<"keydown", 0>>),
                                <<"keyup", 0>>) ]

\* init()
CanvasInit(canvasEl) ==
  /\ ~initialized
  /\ domContainer' = setupDOMContainer(canvasEl)
  /\ stageListeners' = setupPanning.stage
  /\ windowListeners' = addEventListener(setupPanning.window, <<"resize", 0>>)
  /\ UNCHANGED <<worldContainer, isPanning, isSpacebarDown, lastPosition, cursor,
                 nodes, userSelect, pointerOver>>

\* window "resize" listener
Resize(canvasEl) ==
  /\ listening(<<"resize", 0>>)
  /\ domContainer' = setupDOMContainer(canvasEl)
  /\ UNCHANGED <<worldContainer, isPanning, isSpacebarDown, lastPosition, cursor,
                 nodes, windowListeners, stageListeners, userSelect, pointerOver>>

\* Mutant of pointerdown: the modifier not asked for
pointerdownAnyKey(event) ==
  [isPanning |-> TRUE, lastPosition |-> event,
   cursor |-> updateCursor(TRUE, isSpacebarDown)]

\* The stage "pointerdown" handler: the values it leaves in
\* isPanning, lastPosition and the cursor.
pointerdown(event) ==
  IF isSpacebarDown
    THEN [isPanning |-> TRUE, lastPosition |-> event,
          cursor |-> updateCursor(TRUE, isSpacebarDown)]
    ELSE [isPanning |-> isPanning, lastPosition |-> lastPosition, cursor |-> cursor]

StagePointerDown(event) ==
  /\ "pointerdown" \in stageListeners
  /\ pointerOver
  /\ isPanning' = pointerdown(event).isPanning
  /\ lastPosition' = pointerdown(event).lastPosition
  /\ cursor' = pointerdown(event).cursor
  /\ UNCHANGED <<worldContainer, isSpacebarDown, nodes, windowListeners,
                 stageListeners, userSelect, domContainer, pointerOver>>

\* Mutant of pointermove: the Panning flag not asked for
pointermoveUnguarded(event) ==
  LET dx == event.x - lastPosition.x
      dy == event.y - lastPosition.y
  IN [worldContainer |-> Point(worldContainer.x + dx, worldContainer.y + dy),
      lastPosition |-> event]

\* Mutant of pointermove: the reference point not set to the pointer
pointermoveNoReanchor(event) ==
  IF isPanning
    THEN LET dx == event.x - lastPosition.x
             dy == event.y - lastPosition.y
         IN [worldContainer |-> Point(worldContainer.x + dx, worldContainer.y + dy),
             lastPosition |-> lastPosition]
    ELSE [worldContainer |-> worldContainer, lastPosition |-> lastPosition]

\* The stage "pointermove" handler: the values it leaves in
\* worldContainer and lastPosition.
pointermove(event) ==
  IF isPanning
    THEN LET dx == event.x - lastPosition.x
             dy == event.y - lastPosition.y
         IN [worldContainer |-> Point(worldContainer.x + dx, worldContainer.y + dy),
             lastPosition |-> event]
    ELSE [worldContainer |-> worldContainer, lastPosition |-> lastPosition]

\* The pan offset stays within the model's bound
PanBound(p) ==
  /\ 0 <= p.x /\ p.x <= MaxPanSteps * 500
  /\ 0 <= p.y /\ p.y <= MaxPanSteps * 660

\* Mutant of StagePointerMove: the pan also written into the elements'
\* world positions
StagePointerMoveNodes(event) ==
  /\ "pointermove" \in stageListeners
  /\ pointerOver
  /\ PanBound(pointermove(event).worldContainer)
  /\ worldContainer' = pointermove(event).worldContainer
  /\ lastPosition' = pointermove(event).lastPosition
  /\ nodes' = [i \in 1..Len(nodes) |->
                [nodes[i] EXCEPT !.worldPosition =
                   Point(@.x + worldContainer'.x - worldContainer.x,
                         @.y + worldContainer'.y - worldContainer.y)]]
  /\ UNCHANGED <<isPanning, isSpacebarDown, cursor, windowListeners,
                 stageListeners, userSelect, domContainer, pointerOver>>

StagePointerMove(event) ==
  /\ "pointermove" \in stageListeners
  /\ pointerOver
  /\ PanBound(pointermove(event).worldContainer)
  /\ worldContainer' = pointermove(event).worldContainer
  /\ lastPosition' = pointermove(event).lastPosition
  /\ UNCHANGED <<isPanning, isSpacebarDown, cursor, nodes, windowListeners,
                 stageListeners, userSelect, domContainer, pointerOver>>

\* Mutant of stopPanning: the release also ends the elements' drags
stopPanningEndsDrags(type) ==
  /\ type \in stageListeners
  /\ pointerOver <=> (type = "pointerup")
  /\ isPanning' = FALSE
  /\ cursor' = updateCursor(FALSE, isSpacebarDown)
  /\ nodes' = [i \in 1..Len(nodes) |-> [nodes[i] EXCEPT !.isDragging = FALSE]]
  /\ UNCHANGED <<worldContainer, isSpacebarDown, lastPosition,
                 windowListeners, stageListeners, userSelect, domContainer, pointerOver>>

\* stopPanning, the handler of "pointerup" and of "pointerupoutside"
stopPanning(type) ==
  /\ type \in stageListeners
  /\ pointerOver <=> (type = "pointerup")
  /\ isPanning' = FALSE
  /\ cursor' = updateCursor(FALSE, isSpacebarDown)
  /\ UNCHANGED <<worldContainer, isSpacebarDown, lastPosition, nodes,
                 windowListeners, stageListeners, userSelect, domContainer, pointerOver>>

StagePointerUp == stopPanning("pointerup")
StagePointerUpOutside == stopPanning("pointerupoutside")

\* The pointer enters or leaves the canvas: _setupPanning registers no
\* listener for either, so no handler runs.
StagePointerEnter ==
  /\ initialized
  /\ ~pointerOver
  /\ pointerOver' = TRUE
  /\ UNCHANGED <<worldContainer, isPanning, isSpacebarDown, lastPosition, cursor,
                 nodes, windowListeners, stageListeners, userSelect, domContainer>>

StagePointerLeave ==
  /\ initialized
  /\ pointerOver
  /\ pointerOver' = FALSE
  /\ UNCHANGED <<worldContainer, isPanning, isSpacebarDown, lastPosition, cursor,
                 nodes, windowListeners, stageListeners, userSelect, domContainer>>

\* window "keydown" listener
KeyDown(code) ==
  /\ listening(<<"keydown", 0>>)
  /\ IF code = "Space" /\ ~isSpacebarDown
       THEN /\ isSpacebarDown' = TRUE
            /\ cursor' = updateCursor(isPanning, TRUE)
       ELSE UNCHANGED <<isSpacebarDown, cursor>>
  /\ UNCHANGED <<worldContainer, isPanning, lastPosition, nodes, windowListeners,
                 stageListeners, userSelect, domContainer, pointerOver>>

\* window "keyup" listener
KeyUp(code) ==
  /\ listening(<<"keyup", 0>>)
  /\ IF code = "Space"
       THEN /\ isSpacebarDown' = FALSE
            /\ cursor' = updateCursor(isPanning, FALSE)
       ELSE UNCHANGED <<isSpacebarDown, cursor>>
  /\ UNCHANGED <<worldContainer, isPanning, lastPosition, nodes, windowListeners,
                 stageListeners, userSelect, domContainer, pointerOver>>

----------------------------------------------------------------------------
(* DraggableNode *)

\* constructor(x, y, text, canvas), with _setupDOM and _setupAnchor
DraggableNode(a) ==
  [ worldPosition |-> Point(a.x, a.y),
    dragOffset    |-> Point(0, 0),
    isDragging    |-> FALSE,
    anchorMarker  |-> Point(a.x, a.y),
    style         |-> [left |-> 0, top |-> 0],   \* not yet placed: static position
    attached      |-> TRUE,   \* domElement and marker are children of their containers
    innerText     |-> <<"text">>,
    clientWidth   |-> a.clientWidth,
    clientHeight  |-> a.clientHeight ]

\* createNode(x, y, text), as called by the entry point after init()
CreateNode(args) ==
  /\ initialized
  /\ Len(nodes) < Len(args)
  /\ nodes' = Append(nodes, DraggableNode(args[Len(nodes) + 1]))
  /\ UNCHANGED <<worldContainer, isPanning, isSpacebarDown, lastPosition, cursor,
                 windowListeners, stageListeners, userSelect, domContainer, pointerOver>>

\* Mutant of stopPropagation: the call left out
stopPropagationOmitted == FALSE

\* event.stopPropagation() in the element's mousedown listener
stopPropagation == TRUE

\* Mutants of mousedown: the element put under the pointer at the press; the
\* offset taken from the pointer's screen position
mousedownCentred(node, event) ==
  LET mouseWorldPos == toLocal(Point(event.x, event.y))
  IN [node EXCEPT
        !.isDragging = TRUE,
        !.worldPosition = mouseWorldPos,
        !.anchorMarker = mouseWorldPos,
        !.dragOffset = Point(0, 0)]
mousedownScreenOffset(node, event) ==
  [node EXCEPT
     !.isDragging = TRUE,
     !.dragOffset = Point(event.x - node.worldPosition.x,
                          event.y - node.worldPosition.y)]

\* The element's "mousedown" listener: the node it leaves
mousedown(node, event) ==
  LET mouseWorldPos == toLocal(Point(event.x, event.y))
  IN [node EXCEPT
        !.isDragging = TRUE,
        !.dragOffset = Point(mouseWorldPos.x - node.worldPosition.x,
                             mouseWorldPos.y - node.worldPosition.y)]

\* A press on element n, which the host delivers to an element of the
\* document only.  Unless the listener stops it, the event goes on to the
\* stage's pointerdown handler.
NodeMouseDown(n, event) ==
  /\ n \in 1..Len(nodes)
  /\ nodes[n].attached
  /\ nodes' = [nodes EXCEPT ![n] = mousedown(nodes[n], event)]
  /\ userSelect' = "none"
  /\ windowListeners' = addEventListener(addEventListener(windowListeners, <<"mousemove", n>>),
                                         <<"mouseup", n>>)
  /\ IF stopPropagation
       THEN UNCHANGED <<isPanning, lastPosition, cursor>>
       ELSE /\ isPanning' = pointerdown(event).isPanning
            /\ lastPosition' = pointerdown(event).lastPosition
            /\ cursor' = pointerdown(event).cursor
  /\ UNCHANGED <<worldContainer, isSpacebarDown, stageListeners, domContainer, pointerOver>>

\* Mutants of clamp: the upper bound forgotten; max and min exchanged; an
\* inverted range put in order before clamping into it
clampLowerOnly(lo, s, hi) == Max(lo, s)
clampExchanged(lo, s, hi) == Min(lo, Max(s, hi))
clampSwapped(lo, s, hi) == Max(Min(lo, hi), Min(s, Max(lo, hi)))

\* Math.max(lo, Math.min(s, hi))
clamp(lo, s, hi) == Max(lo, Min(s, hi))

\* onDragMove without the clamp: the proposed position is committed as it is
onDragMoveUnclamped(node, event) ==
  IF ~node.isDragging THEN node
  ELSE
    LET mouseWorldPos == toLocal(Point(event.x, event.y))
        proposedWorldPos == Point(mouseWorldPos.x - node.dragOffset.x,
                                  mouseWorldPos.y - node.dragOffset.y)
    IN [node EXCEPT !.worldPosition = proposedWorldPos,
                    !.anchorMarker = proposedWorldPos]

\* Mutant of onDragMove: the marker left where it was
onDragMoveMarkerStale(node, event) ==
  IF ~node.isDragging THEN node
  ELSE
    LET mouseWorldPos == toLocal(Point(event.x, event.y))
        proposedWorldPos == Point(mouseWorldPos.x - node.dragOffset.x,
                                  mouseWorldPos.y - node.dragOffset.y)
        proposedScreenPos == toGlobal(proposedWorldPos)
        clampedScreenX == clamp(screen.x, proposedScreenPos.x,
                                screen.width - node.clientWidth)
        clampedScreenY == clamp(screen.y, proposedScreenPos.y,
                                screen.height - node.clientHeight)
        finalWorldPos == toLocal(Point(clampedScreenX, clampedScreenY))
    IN [node EXCEPT !.worldPosition = finalWorldPos]

\* onDragMove: the node it leaves
onDragMove(node, event) ==
  IF ~node.isDragging THEN node
  ELSE
    LET mouseWorldPos == toLocal(Point(event.x, event.y))
        proposedWorldPos == Point(mouseWorldPos.x - node.dragOffset.x,
                                  mouseWorldPos.y - node.dragOffset.y)
        proposedScreenPos == toGlobal(proposedWorldPos)
        nodeWidth == node.clientWidth
        nodeHeight == node.clientHeight
        canvasBounds == screen
        clampedScreenX == clamp(canvasBounds.x, proposedScreenPos.x,
                                canvasBounds.width - nodeWidth)
        clampedScreenY == clamp(canvasBounds.y, proposedScreenPos.y,
                                canvasBounds.height - nodeHeight)
        finalWorldPos == toLocal(Point(clampedScreenX, clampedScreenY))
    IN [node EXCEPT !.worldPosition = finalWorldPos,
                    !.anchorMarker = finalWorldPos]

\* window "mousemove" delivered to the listener of element n
OnDragMove(n, event) ==
  /\ listening(<<"mousemove", n>>)
  /\ nodes' = [nodes EXCEPT ![n] = onDragMove(nodes[n], event)]
  /\ UNCHANGED <<worldContainer, isPanning, isSpacebarDown, lastPosition, cursor,
                 windowListeners, stageListeners, userSelect, domContainer, pointerOver>>

\* Mutant of onDragEnd: the mousemove listener left registered
onDragEndLeaky(n) == removeEventListener(windowListeners, <<"mouseup", n>>)

\* onDragEnd: the window listeners it leaves
onDragEnd(n) ==
  removeEventListener(removeEventListener(windowListeners, <<"mousemove", n>>),
                      <<"mouseup", n>>)

\* Mutant of OnDragEnd: one Dragging flag shared by all elements
OnDragEndShared(n) ==
  /\ listening(<<"mouseup", n>>)
  /\ nodes' = [i \in 1..Len(nodes) |-> [nodes[i] EXCEPT !.isDragging = FALSE]]
  /\ userSelect' = ""
  /\ windowListeners' = onDragEnd(n)
  /\ UNCHANGED <<worldContainer, isPanning, isSpacebarDown, lastPosition, cursor,
                 stageListeners, domContainer, pointerOver>>

\* window "mouseup" delivered to the listener of element n
OnDragEnd(n) ==
  /\ listening(<<"mouseup", n>>)
  /\ nodes' = [nodes EXCEPT ![n].isDragging = FALSE]
  /\ userSelect' = ""
  /\ windowListeners' = onDragEnd(n)
  /\ UNCHANGED <<worldContainer, isPanning, isSpacebarDown, lastPosition, cursor,
                 stageListeners, domContainer, pointerOver>>

\* Mutant of update: the placement not taken relative to the container
updateBodyRelative(node) ==
  LET screenPos == toGlobal(node.worldPosition)
  IN [node EXCEPT
        !.style = [left |-> screenPos.x, top |-> screenPos.y],
        !.innerText = <<node.worldPosition.x, node.worldPosition.y>>]

\* Mutant of update: the placement moved by the projection instead of set to it
updateAccumulating(node) ==
  LET screenPos == toGlobal(node.worldPosition)
      containerRect == getBoundingClientRect
  IN [node EXCEPT
        !.style = [left |-> @.left + screenPos.x - containerRect.left,
                   top  |-> @.top + screenPos.y - containerRect.top],
        !.innerText = <<node.worldPosition.x, node.worldPosition.y>>]

\* update(): the node it leaves.  Coordinates are integers, which Math.round
\* leaves as they are.
update(node) ==
  LET screenPos == toGlobal(node.worldPosition)
      containerRect == getBoundingClientRect
  IN [node EXCEPT
        !.style = [left |-> screenPos.x - containerRect.left,
                   top  |-> screenPos.y - containerRect.top],
        !.innerText = <<node.worldPosition.x, node.worldPosition.y>>]

\* destroy(): the element and its marker leave their containers; this.nodes
\* and the window listeners are left as they are.  A second destroy() throws
\* in removeChild before it changes anything.
Destroy(n) ==
  /\ n \in 1..Len(nodes)
  /\ nodes[n].attached
  /\ nodes' = [nodes EXCEPT ![n].attached = FALSE]
  /\ UNCHANGED <<worldContainer, isPanning, isSpacebarDown, lastPosition, cursor,
                 windowListeners, stageListeners, userSelect, domContainer, pointerOver>>

\* The ticker callback of _startTicker: update() on every node of this.nodes
Tick ==
  /\ initialized
  /\ nodes' = [i \in 1..Len(nodes) |-> update(nodes[i])]
  /\ UNCHANGED <<worldContainer, isPanning, isSpacebarDown, lastPosition, cursor,
                 windowListeners, stageListeners, userSelect, domContainer, pointerOver>>

----------------------------------------------------------------------------
(* The system: the entry point creating the elements of `args`, and the host
   delivering events with coordinates from `clients` (mouse), `globals`
   (stage pointer) and canvas placements from `offsets`. *)
System(args, clients, globals, offsets) ==
  \/ \E c \in offsets : CanvasInit(c)
  \/ \E c \in offsets : Resize(c)
  \/ CreateNode(args)
  \/ \E e \in globals : StagePointerDown(e)
  \/ \E e \in globals : StagePointerMove(e)
  \/ StagePointerUp
  \/ StagePointerUpOutside
  \/ StagePointerEnter
  \/ StagePointerLeave
  \/ \E k \in KeyCodes : KeyDown(k)
  \/ \E k \in KeyCodes : KeyUp(k)
  \/ \E n \in 1..Len(nodes), e \in clients : NodeMouseDown(n, e)
  \/ \E n \in 1..Len(nodes), e \in clients : OnDragMove(n, e)
  \/ \E n \in 1..Len(nodes) : OnDragEnd(n)
  \/ Tick

\* The entry point's first element
Next == System(SubSeq(NodeArgs, 1, 1), ClientPoints, GlobalPoints, CanvasOffsets)

Spec == Init /\ [][Next]_vars

\* The entry point's first element, the mouse at one position, and the canvas
\* moving in the page
NextRefresh ==
  System(SubSeq(NodeArgs, 1, 1), { Point(120, 85) }, GlobalPoints, ResizedOffsets)

SpecRefresh == Init /\ [][NextRefresh]_vars

\* The entry point's first two elements; the stage's pointer events all at
\* one position, so that pan gestures begin and end and leave the offset.
NextNodes == System(NodeArgs, ClientPoints, { Point(50, 20) }, CanvasOffsets)

SpecNodes == Init /\ [][NextNodes]_vars

\* The entry point's first element, the mouse at one position, and a client
\* that calls destroy() on the element createNode returned
NextLifecycle ==
  \/ System(SubSeq(NodeArgs, 1, 1), { Point(120, 85) }, GlobalPoints, CanvasOffsets)
  \/ \E n \in 1..Len(nodes) : Destroy(n)

SpecLifecycle == Init /\ [][NextLifecycle]_vars

----------------------------------------------------------------------------
(* The claims *)

Nodes == 1..Len(nodes)

\* The position element n was created at
created(n) == Point(NodeArgs[n].x, NodeArgs[n].y)

\* The clamp range of the specification, per axis:
\* [viewportOrigin, viewportOrigin + viewportSize - footprint]
lowerX == screen.x
lowerY == screen.y
upperX(node) == screen.x + screen.width - node.clientWidth
upperY(node) == screen.y + screen.height - node.clientHeight

\* viewportSize >= footprint on both axes
nonDegenerate(node) ==
  /\ screen.width >= node.clientWidth
  /\ screen.height >= node.clientHeight

\* The screen projection of the node's world position lies in the clamp range
inBounds(node) ==
  LET p == toGlobal(node.worldPosition)
  IN /\ lowerX <= p.x /\ p.x <= upperX(node)
     /\ lowerY <= p.y /\ p.y <= upperY(node)

\* A step in which onDragMove of element n commits a position
commits(n, e) == OnDragMove(n, e) /\ nodes[n].isDragging

(* C1: with a viewport that is at least as large as the element on both axes,
   right after every onDragMove commit the screen projection (world position
   + pan offset) of the committed position lies within the clamp range on
   each axis. *)
C1_CommitInBounds ==
  [][\A n \in Nodes : \A e \in ClientPoints :
       (commits(n, e) /\ nonDegenerate(nodes[n])) => inBounds(nodes[n])']_vars

\* A drag has committed the upper bound on x while the surface is panned
C1_Witness ==
  \E n \in Nodes :
    /\ nodes[n].isDragging
    /\ nonDegenerate(nodes[n])
    /\ worldContainer # Point(0, 0)
    /\ nodes[n].worldPosition # created(n)
    /\ toGlobal(nodes[n].worldPosition).x = upperX(nodes[n])

(* C2, as claimed: in every reachable state, an element whose world position
   a drag move has committed (so it is no longer the position it was created
   at) projects into the clamp range, also after later panning.  Taken in
   the states at rest, where the drag is over and no pan is in progress. *)
C2_CommittedAlwaysInBounds ==
  \A n \in Nodes :
    (/\ nonDegenerate(nodes[n])
     /\ nodes[n].worldPosition # created(n)
     /\ ~nodes[n].isDragging
     /\ ~isPanning)
      => inBounds(nodes[n])

(* C2, amended: a projection that lies within the clamp range stays within it
   through every step that leaves the pan offset as it is (drag events, key
   events, ticks, resizes, pointer events of an idle surface); only a change
   of the pan offset can take it out. *)
C2_InBoundsUntilPanned ==
  [][\A n \in Nodes :
       (nonDegenerate(nodes[n]) /\ inBounds(nodes[n])
          /\ worldContainer' = worldContainer)
       => inBounds(nodes[n])']_vars

\* A committed position that panning has since taken out of the clamp range
C2_Witness ==
  \E n \in Nodes :
    /\ nonDegenerate(nodes[n])
    /\ nodes[n].worldPosition # created(n)
    /\ ~inBounds(nodes[n])
    /\ ~nodes[n].isDragging

\* The surface's gesture state and offset
panState == <<worldContainer, isPanning, isSpacebarDown, lastPosition, cursor>>

(* C3: a step that changes the surface's pan state (offset, Panning flag,
   modifier flag, reference point, cursor) changes no element's world
   position; each screen projection moves by exactly the change of the
   offset. *)
C3_PanKeepsWorldPosition ==
  [][panState' # panState =>
       \A n \in Nodes :
         /\ nodes'[n].worldPosition = nodes[n].worldPosition
         /\ toGlobal(nodes[n].worldPosition)'.x
              = toGlobal(nodes[n].worldPosition).x + worldContainer'.x - worldContainer.x
         /\ toGlobal(nodes[n].worldPosition)'.y
              = toGlobal(nodes[n].worldPosition).y + worldContainer'.y - worldContainer.y]_vars

\* The surface has been panned and the element is where it was created
C3_Witness ==
  \E n \in Nodes :
    /\ worldContainer # Point(0, 0)
    /\ nodes[n].worldPosition = created(n)
    /\ toGlobal(nodes[n].worldPosition) # created(n)

\* Where the overlay of a node is on screen: the container's origin plus the
\* node's placement in the container
placement(node) ==
  Point(getBoundingClientRect.left + node.style.left,
        getBoundingClientRect.top + node.style.top)

(* C4: after a refresh the overlay's screen placement is world position +
   pan offset on each axis, unclamped, and the refresh leaves the world
   position as it was. *)
C4_RefreshPlacesAtProjection ==
  [][Tick =>
       \A n \in Nodes :
         /\ placement(nodes[n])'.x = nodes[n].worldPosition.x + worldContainer.x
         /\ placement(nodes[n])'.y = nodes[n].worldPosition.y + worldContainer.y
         /\ nodes'[n].worldPosition = nodes[n].worldPosition]_vars

\* A refreshed overlay outside the clamp range, at the created position
C4_Witness ==
  \E n \in Nodes :
    /\ nodes[n].worldPosition = created(n)
    /\ worldContainer # Point(0, 0)
    /\ placement(nodes[n]) = toGlobal(nodes[n].worldPosition)
    /\ ~inBounds(nodes[n])

\* The clamp of the specification: s when it lies in [lo, hi], else the
\* bound it lies beyond
clamped(lo, s, hi) ==
  CASE s < lo -> lo
    [] s > hi -> hi
    [] OTHER  -> s

\* The proposed screen coordinate: toGlobal(pointer's world position - drag offset)
proposed(node, e) ==
  toGlobal(Point(toLocal(e).x - node.dragOffset.x, toLocal(e).y - node.dragOffset.y))

(* C5: on each onDragMove while Dragging the committed world position is,
   on each axis with a clamp range lo <= hi, toLocal of the proposed screen
   coordinate clamped to [lo, hi]; the other axis plays no part in it. *)
C5_CommitIsClampedProposal ==
  [][\A n \in Nodes : \A e \in ClientPoints :
       commits(n, e) =>
         LET node == nodes[n]
             s == proposed(node, e)
             cx == clamped(lowerX, s.x, upperX(node))
             cy == clamped(lowerY, s.y, upperY(node))
         IN /\ lowerX <= upperX(node) =>
                 nodes'[n].worldPosition.x = toLocal(Point(cx, 0)).x
            /\ lowerY <= upperY(node) =>
                 nodes'[n].worldPosition.y = toLocal(Point(0, cy)).y]_vars

\* A drag beyond the right edge: x is at viewportWidth - footprintWidth and
\* y, strictly inside its range, is where the element was created
C5_Witness ==
  \E n \in Nodes :
    /\ nodes[n].isDragging
    /\ nodes[n].worldPosition.x # created(n).x
    /\ nodes[n].worldPosition.y = created(n).y
    /\ toGlobal(nodes[n].worldPosition).x = screen.width - nodes[n].clientWidth
    /\ lowerY < toGlobal(nodes[n].worldPosition).y
    /\ toGlobal(nodes[n].worldPosition).y < upperY(nodes[n])

\* The drag state of an element
dragState(node) == <<node.worldPosition, node.dragOffset, node.isDragging>>

\* A step of a drag gesture of element a
dragEvent(a) ==
  \/ \E e \in ClientPoints : NodeMouseDown(a, e)
  \/ \E e \in ClientPoints : OnDragMove(a, e)
  \/ OnDragEnd(a)

(* C6: beginDrag, onDragMove and endDrag of an element leave every other
   element's world position, drag offset and Idle/Dragging state unchanged,
   and its window listeners registered or not as they were. *)
C6_DragsDoNotInterfere ==
  [][\A a \in Nodes : \A b \in Nodes \ {a} :
       dragEvent(a) =>
         /\ dragState(nodes[b])' = dragState(nodes[b])
         /\ listening(<<"mousemove", b>>)' = listening(<<"mousemove", b>>)
         /\ listening(<<"mouseup", b>>)' = listening(<<"mouseup", b>>)]_vars

\* Both elements are being dragged, each moved from where it was created,
\* with different drag offsets
C6_Witness ==
  /\ Len(nodes) = 2
  /\ nodes[1].isDragging /\ nodes[2].isDragging
  /\ nodes[1].worldPosition # created(1)
  /\ nodes[2].worldPosition # created(2)
  /\ nodes[1].dragOffset # nodes[2].dragOffset

\* How many times the listener l is registered on window
registered(l) == Cardinality({i \in 1..Len(windowListeners) : windowListeners[i] = l})

\* The window listeners of element n are registered exactly while it is Dragging
dragListeners(n) ==
  /\ registered(<<"mousemove", n>>) = (IF nodes[n].isDragging THEN 1 ELSE 0)
  /\ registered(<<"mouseup", n>>) = (IF nodes[n].isDragging THEN 1 ELSE 0)

(* C7, as claimed: an element's window mousemove/mouseup listeners are
   registered exactly while it is Dragging, and the pan gesture's move/up
   listeners exactly while the surface is Panning. *)
C7_ListenersOnlyDuringGesture ==
  /\ \A n \in Nodes : dragListeners(n)
  /\ \A t \in {"pointermove", "pointerup", "pointerupoutside"} :
       t \in stageListeners <=> isPanning

(* C7, amended: an element's window mousemove/mouseup listeners are
   registered exactly while it is Dragging, once each; the pan gesture's
   move/up listeners are registered on the stage by init() and stay
   registered whether or not the surface is Panning. *)
C7_DragListenersOnlyWhileDragging ==
  /\ \A n \in Nodes : dragListeners(n)
  /\ initialized =>
       {"pointermove", "pointerup", "pointerupoutside"} \subseteq stageListeners

\* A finished drag (its offset is recorded, its listeners are gone) beside
\* a drag in progress, the surface idle with its listeners registered
C7_Witness ==
  /\ Len(nodes) = 2
  /\ ~nodes[1].isDragging /\ nodes[1].dragOffset # Point(0, 0)
  /\ nodes[2].isDragging
  /\ ~isPanning /\ "pointermove" \in stageListeners

\* A release of the pointer, inside or outside the surface
pointerUp == StagePointerUp \/ StagePointerUpOutside

\* Panning begins only at a pointer-down with the modifier held, a
\* pointer-down without it leaves an idle surface idle, every pointer-up
\* ends Panning
panMachine ==
  /\ (~isPanning /\ isPanning') =>
       (isSpacebarDown /\ \E e \in GlobalPoints : StagePointerDown(e))
  /\ \A e \in GlobalPoints :
       (StagePointerDown(e) /\ ~isSpacebarDown /\ ~isPanning) => ~isPanning'
  /\ pointerUp => ~isPanning'

(* C8, as claimed: Idle -> Panning -> Idle, entered only by a pointer-down
   with the modifier held, left at every pointer-up and at every
   pointer-leave. *)
C8_PanEndsAtUpOrLeave ==
  [][panMachine /\ (StagePointerLeave => ~isPanning')]_vars

(* C8, amended: Idle -> Panning -> Idle, entered only by a pointer-down with
   the modifier held, left at every pointer-up (inside or outside the
   surface); a pointer-leave changes nothing, so a pan goes on after it. *)
C8_PanEndsAtUp ==
  [][panMachine /\ (StagePointerLeave => isPanning' = isPanning)]_vars

\* The surface is Panning with the pointer outside of it
C8_Witness == isPanning /\ ~pointerOver

(* C9: every step taken while the surface is Idle leaves the pan offset
   unchanged. *)
C9_OffsetOnlyWhilePanning ==
  [][~isPanning => worldContainer' = worldContainer]_vars

\* An idle surface that keeps the offset of a finished pan, its reference
\* point elsewhere than the pointer events it has since received
C9_Witness ==
  /\ ~isPanning
  /\ pointerOver
  /\ worldContainer # Point(0, 0)
  /\ \E n \in Nodes : nodes[n].isDragging

(* C10: a mousedown on an element puts it in Dragging and leaves the
   surface's Panning flag and reference point as they were, also with the
   modifier held. *)
C10_PressStartsDragNotPan ==
  [][\A n \in Nodes : \A e \in ClientPoints :
       NodeMouseDown(n, e) =>
         /\ nodes'[n].isDragging
         /\ isPanning' = isPanning
         /\ lastPosition' = lastPosition]_vars

\* An element pressed with the modifier held, the surface idle
C10_Witness ==
  /\ isSpacebarDown
  /\ ~isPanning
  /\ lastPosition = Point(0, 0)
  /\ \E n \in Nodes : nodes[n].isDragging

\* Viewport sizes, footprints and proposed screen coordinates the clamp is
\* taken at, beside those the drags of the model produce: a zero-size
\* viewport, a zero-size element, an element as large as and larger than the
\* viewport, and coordinates below, at and above the viewport's origin
ViewportSizes == { 0, 600, 700 }
Footprints == { 0, 100, 600, 800 }
ProposedCoordinates == { -700, -100, -1, 0, 1, 85, 600, 1300 }

(* C11: where viewportSize - footprint <= 0 on an axis (the clamp range is
   inverted or a single point), every onDragMove commit projects to the
   viewport's origin on that axis, wherever the pointer is, and the clamp the
   commit applies yields the viewport's origin for every proposed coordinate
   of such an axis, a zero-size viewport and a zero-size element included. *)
C11_DegenerateClampsToOrigin ==
  [][\A n \in Nodes : \A e \in ClientPoints :
       commits(n, e) =>
         /\ upperX(nodes[n]) <= lowerX =>
              toGlobal(nodes[n].worldPosition)'.x = lowerX
         /\ upperY(nodes[n]) <= lowerY =>
              toGlobal(nodes[n].worldPosition)'.y = lowerY
         /\ \A size \in ViewportSizes : \A fp \in Footprints :
              \A s \in ProposedCoordinates :
                size - fp <= 0 => clamp(screen.x, s, size - fp) = screen.x]_vars

\* The element taller than the viewport, dragged beyond the right edge: its
\* y projects to the viewport's origin, its x to the upper bound of its range
C11_Witness ==
  /\ Len(nodes) = 2
  /\ upperY(nodes[2]) < lowerY
  /\ nodes[2].isDragging
  /\ nodes[2].worldPosition # created(2)
  /\ toGlobal(nodes[2].worldPosition).y = lowerY
  /\ toGlobal(nodes[2].worldPosition).x = upperX(nodes[2])

\* The points the round trip is taken at: the pointer positions of the
\* model, the origin, and a point outside the viewport on both axes
RoundTripPoints == ClientPoints \cup GlobalPoints \cup { Point(0, 0), Point(-7, 1300) }

(* C12: at every pan offset a sequence of pan gestures reaches, and every
   point p, toGlobal(p) = p + offset, toLocal(p) = p - offset,
   toGlobal(toLocal(p)) = p and toLocal(toGlobal(p)) = p. *)
C12_TransformsRoundTrip ==
  \A p \in RoundTripPoints :
    /\ toGlobal(p) = Point(p.x + worldContainer.x, p.y + worldContainer.y)
    /\ toLocal(p) = Point(p.x - worldContainer.x, p.y - worldContainer.y)
    /\ toGlobal(toLocal(p)) = p
    /\ toLocal(toGlobal(p)) = p

\* A finished pan gesture has left an offset at which neither transform is
\* the identity
C12_Witness ==
  /\ ~isPanning
  /\ ~isSpacebarDown
  /\ worldContainer.x # 0 /\ worldContainer.y # 0
  /\ \A p \in RoundTripPoints : toLocal(p) # p /\ toGlobal(p) # p

(* C13: a refresh of an element that the tick has just refreshed, with the
   world position, the pan offset and the overlay container where they were,
   leaves the element as the first refresh left it (the same placement, the
   same text); and a refresh changes nothing but the placement and the text
   of the overlay. *)
C13_RefreshIdempotent ==
  [][Tick =>
       /\ \A n \in Nodes :
            /\ update(nodes[n])' = nodes'[n]
            /\ placement(update(nodes[n]))' = placement(nodes[n])'
            /\ nodes'[n] = [nodes[n] EXCEPT !.style = nodes'[n].style,
                                            !.innerText = nodes'[n].innerText]
       /\ Len(nodes') = Len(nodes)
       /\ UNCHANGED <<worldContainer, isPanning, isSpacebarDown, lastPosition,
                      cursor, windowListeners, stageListeners, userSelect,
                      domContainer, pointerOver>>]_vars

\* A dragged element that a tick has placed, in a container away from the
\* page's origin under a panned surface: a further tick leaves it there
C13_Witness ==
  \E n \in Nodes :
    /\ nodes[n].isDragging
    /\ nodes[n].worldPosition # created(n)
    /\ worldContainer # Point(0, 0)
    /\ getBoundingClientRect # [left |-> 0, top |-> 0]
    /\ nodes[n].style # [left |-> 0, top |-> 0]
    /\ update(nodes[n]) = nodes[n]

\* The element is live: created and not destroyed
live(node) == node.attached

(* C14: a render tick refreshes every live element, once, in the order of
   creation (the elements are independent, so the order is not observable),
   and leaves every destroyed element as it was. *)
C14_TickRefreshesLiveOnly ==
  [][Tick =>
       /\ Len(nodes') = Len(nodes)
       /\ \A n \in Nodes :
            nodes'[n] = IF live(nodes[n]) THEN update(nodes[n]) ELSE nodes[n]]_vars

\* A destroyed element that a later tick has placed at the projection of a
\* position it did not have when it was destroyed or before
C14_Witness ==
  \E n \in Nodes :
    /\ ~live(nodes[n])
    /\ worldContainer # Point(0, 0)
    /\ nodes[n].style # [left |-> 0, top |-> 0]
    /\ update(nodes[n]) = nodes[n]

\* The element holds no drag offset: dragOffset is as `new Point()` made it
noDragOffset(node) == node.dragOffset = Point(0, 0)

(* C15: an Idle element holds no drag offset: endDrag discards the offset
   the gesture's beginDrag recorded. *)
C15_IdleHoldsNoDragOffset ==
  \A n \in Nodes : ~nodes[n].isDragging => noDragOffset(nodes[n])

\* The pan offset relative to the reference point
panAnchor == Point(worldContainer.x - lastPosition.x, worldContainer.y - lastPosition.y)

(* C16: while Panning a pointer-move adds (pointer position - reference
   point) to the pan offset, unclamped, and makes the pointer position the
   reference point; so from the pointer-down that set the reference point to
   the pointer-up, offset - reference point stays what it was at the
   pointer-down, and the offset's net change is the last move's position
   minus the pointer-down's, however many moves there were. *)
C16_PanAddsPointerDelta ==
  [][/\ \A e \in GlobalPoints :
          (StagePointerMove(e) /\ isPanning) =>
            /\ worldContainer' = Point(worldContainer.x + e.x - lastPosition.x,
                                       worldContainer.y + e.y - lastPosition.y)
            /\ lastPosition' = e
     /\ (isPanning /\ lastPosition' = lastPosition) => worldContainer' = worldContainer
     /\ (isPanning /\ ~ \E e \in GlobalPoints : StagePointerDown(e)) =>
          panAnchor' = panAnchor]_vars

\* A pan in progress whose moves have taken the offset to where the pointer
\* went from the pointer-down
C16_Witness ==
  /\ isPanning
  /\ pointerOver
  /\ lastPosition = Point(550, 680)
  /\ worldContainer = Point(500, 660)
  /\ panAnchor = Point(-50, -20)

(* C17: a step changes an element's world position only if it is an
   onDragMove of that element while it is Dragging; a mousemove on window
   reaches no Idle element, and beginDrag and endDrag leave the world
   position as it was. *)
C17_PositionChangesOnlyByDragMove ==
  [][\A n \in Nodes :
       /\ nodes'[n].worldPosition # nodes[n].worldPosition =>
            (nodes[n].isDragging /\ \E e \in ClientPoints : OnDragMove(n, e))
       /\ ~nodes[n].isDragging =>
            (/\ ~listening(<<"mousemove", n>>)
             /\ \A e \in ClientPoints : ~ENABLED OnDragMove(n, e))
       /\ (OnDragEnd(n) \/ \E e \in ClientPoints : NodeMouseDown(n, e)) =>
            nodes'[n].worldPosition = nodes[n].worldPosition]_vars

\* An Idle element where a finished drag left it, away from where it was
\* created, while the surface is Panning
C17_Witness ==
  \E n \in Nodes :
    /\ ~nodes[n].isDragging
    /\ ~listening(<<"mousemove", n>>)
    /\ nodes[n].worldPosition # created(n)
    /\ isPanning
    /\ pointerOver

(* C18: in every reachable state the marker's position is the element's
   world position: equal at creation, and copied by every onDragMove commit
   in the step that commits. *)
C18_MarkerAtWorldPosition ==
  \A n \in Nodes : nodes[n].anchorMarker = nodes[n].worldPosition

\* Drags under a panned surface have moved the element, and its marker with
\* it; a tick has since written the position into the overlay's text
C18_Witness ==
  \E n \in Nodes :
    /\ nodes[n].worldPosition # created(n)
    /\ nodes[n].anchorMarker # created(n)
    /\ nodes[n].anchorMarker = nodes[n].worldPosition
    /\ worldContainer # Point(0, 0)
    /\ nodes[n].innerText = <<nodes[n].anchorMarker.x, nodes[n].anchorMarker.y>>

\* The offset beginDrag records for a pointer at e: the pointer's world
\* position minus the element's world position
grabOffset(node, e) ==
  Point(toLocal(e).x - node.worldPosition.x, toLocal(e).y - node.worldPosition.y)

(* C19: beginDrag records drag offset = pointer's world position - world
   position.  With that offset recorded for the pointer position e and the
   pan offset as it is, an onDragMove at e leaves the world position where it
   is if its projection lies in the clamp range, and otherwise moves it so
   that the projection is, on each axis, the bound of the range nearest to
   where it was (for a viewport at least as large as the element). *)
C19_PressThenMoveInPlace ==
  [][\A n \in Nodes : \A e \in ClientPoints :
       /\ NodeMouseDown(n, e) => nodes'[n].dragOffset = grabOffset(nodes[n], e)
       /\ (/\ commits(n, e)
           /\ nodes[n].dragOffset = grabOffset(nodes[n], e)
           /\ nonDegenerate(nodes[n])) =>
            LET p == toGlobal(nodes[n].worldPosition)
            IN IF inBounds(nodes[n])
                 THEN nodes'[n].worldPosition = nodes[n].worldPosition
                 ELSE /\ nodes'[n].worldPosition # nodes[n].worldPosition
                      /\ toGlobal(nodes[n].worldPosition)' =
                           Point(clamped(lowerX, p.x, upperX(nodes[n])),
                                 clamped(lowerY, p.y, upperY(nodes[n])))]_vars

\* An element that panning took out of the range, pressed and moved at one
\* pointer position: it has snapped to the upper bounds, its offset still
\* the one recorded for where it was created
C19_Witness ==
  \E n \in Nodes : \E e \in ClientPoints :
    /\ nodes[n].isDragging
    /\ worldContainer # Point(0, 0)
    /\ nodes[n].worldPosition # created(n)
    /\ nodes[n].dragOffset = Point(toLocal(e).x - created(n).x, toLocal(e).y - created(n).y)
    /\ toGlobal(created(n)).x > upperX(nodes[n])
    /\ toGlobal(nodes[n].worldPosition) = Point(upperX(nodes[n]), upperY(nodes[n]))

\* The elements that are Dragging
dragging == { n \in Nodes : nodes[n].isDragging }

(* C20, as claimed: in no reachable state is the surface Panning while an
   element is Dragging, and in none are two elements Dragging. *)
C20_GesturesExclusive ==
  /\ ~(isPanning /\ dragging # {})
  /\ Cardinality(dragging) <= 1

(* C20, amended: the gestures are independent of each other and exclude
   nothing.  An element's Idle/Dragging state changes only at a press on that
   element and at its own mouseup, the surface's Idle/Panning state only at a
   surface pointer-down and at a pointer-up; a press on an element puts it in
   Dragging and a surface pointer-down with the modifier held puts the
   surface in Panning whatever other gestures are in progress. *)
C20_GesturesIndependent ==
  [][/\ \A n \in Nodes :
          nodes'[n].isDragging # nodes[n].isDragging =>
            (OnDragEnd(n) \/ \E e \in ClientPoints : NodeMouseDown(n, e))
     /\ isPanning' # isPanning =>
          (pointerUp \/ \E e \in GlobalPoints : StagePointerDown(e))
     /\ \A n \in Nodes : \A e \in ClientPoints :
          NodeMouseDown(n, e) =>
            (nodes'[n].isDragging /\ dragging \subseteq dragging' /\ isPanning' = isPanning)
     /\ \A e \in GlobalPoints :
          (StagePointerDown(e) /\ isSpacebarDown) => (isPanning' /\ dragging' = dragging)]_vars

\* The surface is Panning while both elements are Dragging, each moved from
\* where it was created
C20_Witness ==
  /\ isPanning
  /\ dragging = {1, 2}
  /\ \A n \in dragging : nodes[n].worldPosition # created(n)

\* The canvas cursor reflects the gesture state
cursorReflects ==
  /\ cursor = "grabbing" <=> isPanning
  /\ cursor = "grab" <=> (~isPanning /\ isSpacebarDown)
  /\ cursor = "default" <=> (~isPanning /\ ~isSpacebarDown)

\* A handler of the pan gesture runs: a surface pointer-down, a pointer-up
\* inside or outside the surface, a keydown or a keyup of Space
panHandler ==
  \/ \E e \in GlobalPoints : StagePointerDown(e)
  \/ pointerUp
  \/ KeyDown("Space")
  \/ KeyUp("Space")

\* Releasing the modifier during a pan leaves the surface Panning and the
\* cursor 'grabbing'
keyUpKeepsPan == (KeyUp("Space") /\ isPanning) => (isPanning' /\ cursor' = "grabbing")

\* A surface pointer-down without the modifier changes nothing, so a state
\* in which it can be delivered is also the state its handler leaves
afterPlainPointerDown ==
  ~isSpacebarDown /\ \E e \in GlobalPoints : ENABLED StagePointerDown(e)

(* C21, as claimed: after every handler of the pan gesture the cursor is
   'grabbing' iff Panning, 'grab' iff not Panning with the modifier held,
   and 'default' otherwise; releasing the modifier during a pan keeps the
   surface Panning and the cursor 'grabbing'. *)
C21_CursorReflectsAfterHandler ==
  /\ [](afterPlainPointerDown => cursorReflects)
  /\ [][(panHandler => cursorReflects') /\ keyUpKeepsPan]_vars

(* C21, amended: the cursor is set by every handler that writes the Panning
   or the modifier flag (a pointer-down with the modifier held, every
   pointer-up, the first keydown and every keyup of Space) and reflects the
   gesture state from the first of them on; until then it is unset, and a
   surface pointer-down without the modifier leaves it as it was, unset
   included.  Releasing the modifier during a pan keeps the surface Panning
   and the cursor 'grabbing'. *)
C21_CursorReflectsOnceSet ==
  [][/\ (\/ isPanning' # isPanning
         \/ isSpacebarDown' # isSpacebarDown
         \/ pointerUp
         \/ KeyUp("Space")
         \/ \E e \in GlobalPoints : StagePointerDown(e) /\ isSpacebarDown)
          => cursorReflects'
     /\ (\E e \in GlobalPoints : StagePointerDown(e) /\ ~isSpacebarDown)
          => cursor' = cursor
     /\ panHandler =>
          (cursorReflects' \/ (cursor' = "" /\ ~isPanning' /\ ~isSpacebarDown'))
     /\ cursorReflects => cursorReflects'
     /\ keyUpKeepsPan]_vars

\* The modifier has been released during a pan: the surface is Panning and
\* the cursor 'grabbing'
C21_Witness ==
  /\ isPanning
  /\ ~isSpacebarDown
  /\ cursor = "grabbing"

====
